---- MODULE Spec2Model ----
(***************************************************************************)
(* A model of rdfnav (src/src/rdfnav/__init__.py): GraphNavigator and      *)
(* UriNode over one shared rdflib Graph.  The graph is a set of triples;   *)
(* every method of the two classes that the properties below talk about is *)
(* an action that leaves its outcome in `ret`.                             *)
(***************************************************************************)
EXTENDS Integers, Sequences, FiniteSets, TLC

VARIABLES
    store,   \* GraphNavigator.graph: the set of (s, p, o) triples
    ret,     \* outcome of the last completed call
    gen,     \* a generator object that was created and not yet consumed
    edits    \* number of mutating calls made so far

vars == <<store, ret, gen, edits>>

(***************************************************************************)
(* Bounds of the model.                                                    *)
(***************************************************************************)
MaxTriples == 3
MaxEdits == 1

(***************************************************************************)
(* RDF terms.  A term is a string; its class (URIRef, BNode, Literal) is   *)
(* the set it belongs to.  EmptyIRI is the IRI written <> in the SPARQL    *)
(* query of UriNode.subgraph.                                              *)
(***************************************************************************)
A == "ex:A"
B == "ex:B"
C == "ex:C"
P == "ex:p"
RdfType == "rdf:type"
EmptyIRI == "<>"
BN == "_:b"
L == "'lit'"
None == "None"

URIRefs == {A, B, C, P, RdfType, EmptyIRI}
BNodes == {BN}
Literals == {L}
Terms == URIRefs \cup BNodes \cup Literals

IsIdentifiedNode(x) == x \in URIRefs \cup BNodes
IsURIRef(x) == x \in URIRefs
IsBNode(x) == x \in BNodes
IsLiteral(x) == x \in Literals

(***************************************************************************)
(* Triples the graph handed to GraphNavigator may hold at construction.    *)
(* rdflib accepts any term in any position, so a literal subject and a     *)
(* blank-node predicate are in graphs the navigator can be given.          *)
(***************************************************************************)
FixtureTriples ==
    { <<A, P, B>>, <<B, RdfType, C>>, <<C, P, A>>,
      <<A, RdfType, C>>, <<A, P, L>>,
      <<A, P, BN>>, <<BN, P, C>>,
      <<A, EmptyIRI, B>>,
      <<L, RdfType, C>>,
      <<A, BN, B>> }

Graphs == { g \in SUBSET FixtureTriples : Cardinality(g) <= MaxTriples }

(***************************************************************************)
(* rdflib.Graph as used by the module.                                     *)
(***************************************************************************)
Matches(t, s, p, o) ==
    /\ (s = None \/ t[1] = s)
    /\ (p = None \/ t[2] = p)
    /\ (o = None \/ t[3] = o)

\* Graph.triples((s, p, o)): None is the wildcard
Triples(g, s, p, o) == { t \in g : Matches(t, s, p, o) }

\* Graph.remove(triple) / Graph.add(triple)
Remove(g, t) == g \ {t}
Add(g, t) == g \cup {t}

\* The orders in which an iteration may deliver the elements of a set
Orderings(S) ==
    { q \in [1..Cardinality(S) -> S] : \A i, j \in 1..Cardinality(S) : q[i] = q[j] => i = j }

SeqMap(Op(_), q) == [i \in 1..Len(q) |-> Op(q[i])]

Range(q) == { q[i] : i \in 1..Len(q) }


(***************************************************************************)
(* Outcomes.  A call returns a value, raises ValueError with a message, or *)
(* returns a generator object; `pre` is the graph as the call found it.    *)
(***************************************************************************)

\* no generator; a generator is the call that made it, the number of edits
\* the graph had seen by then, and its reference to the graph
NoGen == [op |-> "none", self |-> None, a1 |-> None, a2 |-> None, at |-> 0, copy |-> {}]

Returned(op, self, a1, a2, val, pre) ==
    [op |-> op, self |-> self, a1 |-> a1, a2 |-> a2, kind |-> "return",
     val |-> val, pre |-> pre, touched |-> TRUE, it |-> NoGen]

Raised(op, self, a1, a2, msg, pre) ==
    [op |-> op, self |-> self, a1 |-> a1, a2 |-> a2, kind |-> "ValueError",
     val |-> msg, pre |-> pre, touched |-> TRUE, it |-> NoGen]

\* the outcome `out` of list() or of a singular accessor, as the call's outcome
Outcome(op, self, a1, a2, out, pre) ==
    [op |-> op, self |-> self, a1 |-> a1, a2 |-> a2, kind |-> out.kind,
     val |-> out.val, pre |-> pre, touched |-> TRUE, it |-> NoGen]

InitRet ==
    [op |-> "GraphNavigator", self |-> None, a1 |-> None, a2 |-> None,
     kind |-> "return", val |-> None, pre |-> {}, touched |-> FALSE, it |-> NoGen]

IsReturn(r) == r.kind = "return"
IsError(r) == r.kind = "ValueError"

(***************************************************************************)
(* Arguments the calls are made with.                                      *)
(***************************************************************************)
Handles == {A, B, BN, P}               \* UriNode.iri of change_iri
NewIris == {A, C, RdfType}             \* new_iri: URIRef
Editors == {A, B}                      \* UriNode.iri of delete, add, replace
Predicates == {P, RdfType}
Objects == {B, C, L}
Readers == {A, C}                      \* UriNode.iri of the traversals
Types == {B, C}

(***************************************************************************)
(* UriNode: mutation                                                       *)
(***************************************************************************)
\* tuple(new_iri if x == self.iri else x for x in triple)
Renamed(t, iri, new_iri) ==
    [i \in 1..3 |-> IF t[i] = iri THEN new_iri ELSE t[i]]

\* one pass of the loop body of change_iri
ChangeIriStepSubjectOnly(g, t, iri, new_iri) ==
    IF t[1] = iri THEN Add(Remove(g, t), Renamed(t, iri, new_iri)) ELSE g

ChangeIriStepNoRemove(g, t, iri, new_iri) ==
    IF iri \in Range(t) THEN Add(g, Renamed(t, iri, new_iri)) ELSE g

ChangeIriStep(g, t, iri, new_iri) ==
    IF iri \in Range(t) THEN Add(Remove(g, t), Renamed(t, iri, new_iri)) ELSE g

\* `for triple in self.graph`: the triples the iteration started with, in
\* any order; the set of graphs the loop can end with
RECURSIVE ChangeIriLoop(_, _, _, _)
ChangeIriLoop(g, todo, iri, new_iri) ==
    IF todo = {} THEN {g}
    ELSE UNION { ChangeIriLoop(ChangeIriStep(g, t, iri, new_iri), todo \ {t}, iri, new_iri)
                 : t \in todo }

\* `for trip in self.graph.triples((self.iri, pred, obj)): self.graph.remove(trip)`
RECURSIVE DeleteLoop(_, _)
DeleteLoop(g, todo) ==
    IF todo = {} THEN {g}
    ELSE UNION { DeleteLoop(Remove(g, t), todo \ {t}) : t \in todo }

DeleteTodoAnySubject(g, iri, pred, obj) == Triples(g, None, pred, obj)
DeleteTodoAnyObject(g, iri, pred, obj) == Triples(g, iri, pred, None)
DeleteTodo(g, iri, pred, obj) == Triples(g, iri, pred, obj)

DeleteResults(g, iri, pred, obj) == DeleteLoop(g, DeleteTodo(g, iri, pred, obj))

AddResultOther(g, iri, pred, obj) == Add(g, <<obj, pred, iri>>)
AddResult(g, iri, pred, obj) == Add(g, <<iri, pred, obj>>)

ReplaceResultsNoDelete(g, iri, pred, obj) == { AddResult(g, iri, pred, obj) }
ReplaceResults(g, iri, pred, obj) ==
    { AddResult(d, iri, pred, obj) : d \in DeleteResults(g, iri, pred, None) }

CanEdit == edits < MaxEdits

change_iri(iri, new_iri) ==
    /\ CanEdit
    /\ store' \in ChangeIriLoop(store, store, iri, new_iri)
    /\ ret' = Returned("change_iri", iri, new_iri, None, iri, store)
    /\ edits' = edits + 1
    /\ UNCHANGED gen

delete(iri, pred, obj) ==
    /\ CanEdit
    /\ store' \in DeleteResults(store, iri, pred, obj)
    /\ ret' = Returned("delete", iri, pred, obj, iri, store)
    /\ edits' = edits + 1
    /\ UNCHANGED gen

add(iri, pred, obj) ==
    /\ CanEdit
    /\ store' = AddResult(store, iri, pred, obj)
    /\ Cardinality(store') <= MaxTriples
    /\ ret' = Returned("add", iri, pred, obj, iri, store)
    /\ edits' = edits + 1
    /\ UNCHANGED gen

\* node.add(pred, obj).add(pred, obj): the call made again, with the same
\* arguments, on the handle the first call returned
add_again ==
    /\ ret.op = "add"
    /\ edits <= MaxEdits
    /\ store' = AddResult(store, ret.self, ret.a1, ret.a2)
    /\ ret' = Returned("add", ret.self, ret.a1, ret.a2, ret.self, store)
    /\ edits' = edits + 1
    /\ UNCHANGED gen

replace(iri, pred, obj) ==
    /\ CanEdit
    /\ store' \in ReplaceResults(store, iri, pred, obj)
    /\ Cardinality(store') <= MaxTriples
    /\ ret' = Returned("replace", iri, pred, obj, iri, store)
    /\ edits' = edits + 1
    /\ UNCHANGED gen

Mutation ==
    \/ \E iri \in Handles, new_iri \in NewIris : change_iri(iri, new_iri)
    \/ \E iri \in Editors, pred \in Predicates, obj \in Objects \cup {None} :
           delete(iri, pred, obj)
    \/ \E iri \in Editors, pred \in Predicates, obj \in Objects : add(iri, pred, obj)
    \/ \E iri \in Editors, pred \in Predicates, obj \in Objects : replace(iri, pred, obj)

\* the edits made while a generator waits to be iterated
LazyEdit ==
    \/ change_iri(A, C)
    \/ delete(A, P, None)
    \/ \E iri \in Editors : add(iri, RdfType, C)
    \/ add(A, P, L)
    \/ replace(A, P, C)

(***************************************************************************)
(* Iteration.  list(iterable) either returns the list or lets the          *)
(* ValueError of the generator body through.                               *)
(***************************************************************************)
Listed(q) == [kind |-> "return", val |-> q]
Failed(msg) == [kind |-> "ValueError", val |-> msg]

NoItems == "No items found"
MultipleItems == "Multiple items found"
SubjectNotFound == "Subject not found"
MultipleSubjects == "Multiple subjects found"
NotASubject == "is being used as a subject, but isn't a URI or BNode"

\* exactly_one(items), on the outcome of list(items)
ExactlyOneFirst(out) ==
    IF out.kind = "ValueError" THEN out
    ELSE IF Len(out.val) = 0 THEN Failed(NoItems)
    ELSE Listed(out.val[1])

ExactlyOne(out) ==
    IF out.kind = "ValueError" THEN out
    ELSE IF Len(out.val) = 0 THEN Failed(NoItems)
    ELSE IF Len(out.val) > 1 THEN Failed(MultipleItems)
    ELSE Listed(out.val[1])

Subj(t) == t[1]
Pred(t) == t[2]
Obj(t) == t[3]
PredObj(t) == <<t[2], t[3]>>

(***************************************************************************)
(* GraphNavigator: subjects, subject, instances, instance                  *)
(***************************************************************************)
\* the body of GraphNavigator.subjects run to its end over one iteration order
SubjectsRunSkipping(q) == Listed(SelectSeq(q, IsIdentifiedNode))

SubjectsRun(q) ==
    IF \A i \in 1..Len(q) : IsIdentifiedNode(q[i]) THEN Listed(q)
    ELSE Failed(NotASubject)

\* list(self.subjects(predicate, object)): every outcome an order can give
ListSubjects(g, predicate, object) ==
    { SubjectsRun(SeqMap(Subj, q)) : q \in Orderings(Triples(g, None, predicate, object)) }

SubjectOfFirst(out) ==
    IF out.kind = "ValueError" THEN out
    ELSE IF Len(out.val) = 0 THEN Failed(SubjectNotFound)
    ELSE Listed(out.val[1])

SubjectOf(out) ==
    IF out.kind = "ValueError" THEN out
    ELSE IF Len(out.val) = 0 THEN Failed(SubjectNotFound)
    ELSE IF Len(out.val) > 1 THEN Failed(MultipleSubjects)
    ELSE Listed(out.val[1])

SubjectOutcomes(g, predicate, object) ==
    { SubjectOf(out) : out \in ListSubjects(g, predicate, object) }

\* instances(type_uri) is subjects(RDF.type, type_uri)
ListInstances(g, type_uri) == ListSubjects(g, RdfType, type_uri)

InstanceOutcomes(g, type_uri) ==
    { ExactlyOne(out) : out \in ListInstances(g, type_uri) }

(***************************************************************************)
(* UriNode: single-hop traversal                                           *)
(***************************************************************************)
ListRefObjsViaUnfiltered(g, iri, predicate) ==
    { Listed(SeqMap(Obj, q)) : q \in Orderings(Triples(g, iri, predicate, None)) }

\* list(self.ref_objs_via(predicate)); predicate None follows every predicate
ListRefObjsVia(g, iri, predicate) ==
    { Listed(SelectSeq(SeqMap(Obj, q), IsIdentifiedNode))
      : q \in Orderings(Triples(g, iri, predicate, None)) }

RefEdge(po) == IsIdentifiedNode(po[2]) /\ IsURIRef(po[1])
LitEdge(po) == IsLiteral(po[2]) /\ IsURIRef(po[1])

\* list(self.ref_objs())
ListRefObjs(g, iri) ==
    { Listed(SelectSeq(SeqMap(PredObj, q), RefEdge))
      : q \in Orderings(Triples(g, iri, None, None)) }

RefObjViaOutcomes(g, iri, predicate) ==
    { ExactlyOne(out) : out \in ListRefObjsVia(g, iri, predicate) }

\* Literal.value
Value(lit) == <<"value", lit>>

\* list(self.lit_objs_via(predicate))
ListLitObjsVia(g, iri, predicate) ==
    { Listed(SeqMap(Value, SelectSeq(SeqMap(Obj, q), IsLiteral)))
      : q \in Orderings(Triples(g, iri, predicate, None)) }

LitPair(po) == <<po[1], Value(po[2])>>

\* list(self.lit_objs())
ListLitObjs(g, iri) ==
    { Listed(SeqMap(LitPair, SelectSeq(SeqMap(PredObj, q), LitEdge)))
      : q \in Orderings(Triples(g, iri, None, None)) }

LitObjViaOutcomes(g, iri, predicate) ==
    { ExactlyOne(out) : out \in ListLitObjsVia(g, iri, predicate) }

\* list(self.ref_subjs_via(predicate)) and list(self.ref_subjs())
ListRefSubjsVia(g, iri, predicate) ==
    { Listed(SelectSeq(SeqMap(Subj, q), IsIdentifiedNode))
      : q \in Orderings(Triples(g, None, predicate, iri)) }

ListRefSubjs(g, iri) == ListRefSubjsVia(g, iri, None)

RefSubjViaOutcomes(g, iri, predicate) ==
    { ExactlyOne(out) : out \in ListRefSubjsVia(g, iri, predicate) }


(***************************************************************************)
(* Prefix grouping.  str(pred) is a sequence of characters.                *)
(***************************************************************************)
Str(x) ==
    CASE x = A -> <<"e", "x", ":", "A">>
      [] x = B -> <<"e", "x", ":", "B">>
      [] x = C -> <<"e", "x", ":", "C">>
      [] x = P -> <<"e", "x", ":", "p">>
      [] x = RdfType -> <<"r", "d", "f", ":", "t", "y", "p", "e">>
      [] x = EmptyIRI -> <<>>

ExPrefix == <<"e", "x", ":">>
RdfPrefix == <<"r", "d", "f", ":">>
EPrefix == <<"e">>
PrefixLists == { <<ExPrefix>>, <<RdfPrefix, ExPrefix>>, <<EPrefix, ExPrefix>> }

\* str.startswith / str.removeprefix
StartsWith(str, prefix) ==
    Len(prefix) <= Len(str) /\ SubSeq(str, 1, Len(prefix)) = prefix

RemovePrefix(str, prefix) ==
    IF StartsWith(str, prefix) THEN SubSeq(str, Len(prefix) + 1, Len(str)) ELSE str

\* `for prefix in prefixes: if str(pred).startswith(prefix): ...; break`
\* the index of the prefix that reaches the yield, 0 when none does
FirstMatchLast(str, prefixes) ==
    IF \E i \in 1..Len(prefixes) : StartsWith(str, prefixes[i])
    THEN CHOOSE i \in 1..Len(prefixes) :
             /\ StartsWith(str, prefixes[i])
             /\ \A j \in (i + 1)..Len(prefixes) : ~StartsWith(str, prefixes[j])
    ELSE 0

FirstMatch(str, prefixes) ==
    IF \E i \in 1..Len(prefixes) : StartsWith(str, prefixes[i])
    THEN CHOOSE i \in 1..Len(prefixes) :
             /\ StartsWith(str, prefixes[i])
             /\ \A j \in 1..(i - 1) : ~StartsWith(str, prefixes[j])
    ELSE 0

WithPrefix(q, prefixes) ==
    SelectSeq(q, LAMBDA e : FirstMatch(Str(e[1]), prefixes) # 0)

SansPrefix(q, prefixes) ==
    SeqMap(LAMBDA e : <<RemovePrefix(Str(e[1]), prefixes[FirstMatch(Str(e[1]), prefixes)]),
                        e[2]>>,
           WithPrefix(q, prefixes))

ListRefObjsPrefix(g, iri, prefixes) ==
    { Listed(WithPrefix(out.val, prefixes)) : out \in ListRefObjs(g, iri) }

ListRefObjsSansPrefix(g, iri, prefixes) ==
    { Listed(SansPrefix(out.val, prefixes)) : out \in ListRefObjs(g, iri) }

ListLitObjsPrefix(g, iri, prefixes) ==
    { Listed(WithPrefix(out.val, prefixes)) : out \in ListLitObjs(g, iri) }

ListLitObjsSansPrefix(g, iri, prefixes) ==
    { Listed(SansPrefix(out.val, prefixes)) : out \in ListLitObjs(g, iri) }

(***************************************************************************)
(* UriNode: bounded subgraph extraction                                    *)
(***************************************************************************)
\* One step of the property path !<> : any predicate but the IRI <>
NegatedEmpty(t) == t[2] # EmptyIRI

\* ?root !<>* ?s : the nodes at the end of zero or more !<> steps from root
RECURSIVE PathStar(_, _, _)
PathStar(g, frontier, seen) ==
    IF frontier = {} THEN seen
    ELSE LET next == { t[3] : t \in { u \in g : u[1] \in frontier /\ NegatedEmpty(u) } }
                     \ seen
         IN PathStar(g, next, seen \cup next)

PathNodesOneHop(g, root) ==
    {root} \cup { t[3] : t \in { u \in g : u[1] = root /\ NegatedEmpty(u) } }
PathNodes(g, root) == PathStar(g, {root}, {root})

\* CONSTRUCT { ?s ?p ?o } WHERE { ?root !<>* ?s . ?s ?p ?o }
Subgraph(g, root) ==
    UNION { Triples(g, s, None, None) : s \in PathNodes(g, root) }

\* Graph.cbd(self.iri): the node's triples and, through blank-node objects,
\* the triples of those blank nodes
RECURSIVE CbdNodes(_, _, _)
CbdNodes(g, frontier, seen) ==
    IF frontier = {} THEN seen
    ELSE LET next == { t[3] : t \in { u \in g : u[1] \in frontier /\ IsBNode(u[3]) } }
                     \ seen
         IN CbdNodes(g, next, seen \cup next)

CbdObjectsOnly(g, iri) == { t \in g : t[3] = iri }
Cbd(g, iri) ==
    UNION { Triples(g, s, None, None) : s \in CbdNodes(g, {iri}, {iri}) }

(***************************************************************************)
(* GraphNavigator: typed queries.  A query is known by its form; the       *)
(* engine answers it over the whole graph.                                 *)
(***************************************************************************)
QueryForms == {"ASK", "DESCRIBE", "SELECT", "CONSTRUCT"}

\* Graph.query(query): result.type, bool(result), result.graph, iter(result)
Query(g, form) ==
    [type |-> form, askAnswer |-> (g # {}), graph |-> g, rows |-> Orderings(g)]

MustBe(form) ==
    CASE form = "ASK" -> "query must be an ASK query"
      [] form = "DESCRIBE" -> "query must be a DESCRIBE query"
      [] form = "SELECT" -> "query must be a SELECT query"
      [] form = "CONSTRUCT" -> "query must be a CONSTRUCT query"

Shape(form) ==
    CASE form = "ASK" -> "Boolean"
      [] form = "SELECT" -> "Tabular"
      [] form \in {"DESCRIBE", "CONSTRUCT"} -> "Graph"

\* `if not result.type == "<FORM>": raise ValueError(...)`
TypeCheckByShape(result, form) == Shape(result.type) = Shape(form)
TypeCheck(result, form) == result.type = form

AskQuery(g, query) ==
    LET result == Query(g, query)
    IN IF ~TypeCheck(result, "ASK") THEN {Failed(MustBe("ASK"))}
       ELSE {Listed(result.askAnswer)}

DescribeQuery(g, query) ==
    LET result == Query(g, query)
    IN IF ~TypeCheck(result, "DESCRIBE") THEN {Failed(MustBe("DESCRIBE"))}
       ELSE {Listed(result.graph)}

ListSelectQuery(g, query) ==
    LET result == Query(g, query)
    IN IF ~TypeCheck(result, "SELECT") THEN {Failed(MustBe("SELECT"))}
       ELSE { Listed(rows) : rows \in result.rows }

ConstructQuery(g, query) ==
    LET result == Query(g, query)
    IN IF ~TypeCheck(result, "CONSTRUCT") THEN {Failed(MustBe("CONSTRUCT"))}
       ELSE {Listed(result.graph)}

(***************************************************************************)
(* Generators.  Every plural accessor and GraphNavigator.select_query is a *)
(* generator function: the call binds the arguments and runs no line of    *)
(* the body.  The frame refers to the navigator, hence to the shared       *)
(* graph; `copy` is empty for that reference.                              *)
(***************************************************************************)
GeneratorEager(op, self, a1, a2, g) ==
    [gen |-> [op |-> op, self |-> self, a1 |-> a1, a2 |-> a2, at |-> edits, copy |-> {g}],
     touched |-> TRUE]

Generator(op, self, a1, a2, g) ==
    [gen |-> [op |-> op, self |-> self, a1 |-> a1, a2 |-> a2, at |-> edits, copy |-> {}],
     touched |-> FALSE]

\* the graph the body reads when it runs
GraphOf(it, g) == IF it.copy = {} THEN g ELSE CHOOSE c \in it.copy : TRUE

\* list(it): the body of the generator function, run against graph g
Body(it, g) ==
    CASE it.op = "subjects" -> ListSubjects(g, it.a1, it.a2)
      [] it.op = "instances" -> ListInstances(g, it.a1)
      [] it.op = "select_query" -> ListSelectQuery(g, it.a1)
      [] it.op = "ref_objs_via" -> ListRefObjsVia(g, it.self, it.a1)
      [] it.op = "ref_objs" -> ListRefObjs(g, it.self)
      [] it.op = "ref_objs_prefix" -> ListRefObjsPrefix(g, it.self, it.a1)
      [] it.op = "ref_objs_sans_prefix" -> ListRefObjsSansPrefix(g, it.self, it.a1)
      [] it.op = "lit_objs_via" -> ListLitObjsVia(g, it.self, it.a1)
      [] it.op = "lit_objs" -> ListLitObjs(g, it.self)
      [] it.op = "lit_objs_prefix" -> ListLitObjsPrefix(g, it.self, it.a1)
      [] it.op = "lit_objs_sans_prefix" -> ListLitObjsSansPrefix(g, it.self, it.a1)
      [] it.op = "ref_subjs_via" -> ListRefSubjsVia(g, it.self, it.a1)
      [] it.op = "ref_subjs" -> ListRefSubjs(g, it.self)

\* a call of the generator function `op`
Call(op, self, a1, a2) ==
    LET made == Generator(op, self, a1, a2, store)
    IN /\ gen = NoGen
       /\ gen' = made.gen
       /\ ret' = [op |-> op, self |-> self, a1 |-> a1, a2 |-> a2, kind |-> "return",
                  val |-> "generator", pre |-> store, touched |-> made.touched,
                  it |-> NoGen]
       /\ UNCHANGED <<store, edits>>

\* list(gen): the caller iterates the generator to its end
list ==
    /\ gen # NoGen
    /\ \E out \in Body(gen, GraphOf(gen, store)) :
           ret' = [Outcome("list", gen.self, gen.a1, gen.a2, out, store) EXCEPT !.it = gen]
    /\ gen' = NoGen
    /\ UNCHANGED <<store, edits>>

subjects(predicate, object) == Call("subjects", None, predicate, object)
instances(type_uri) == Call("instances", None, type_uri, None)
select_query(query) == Call("select_query", None, query, None)
ref_objs_via(iri, predicate) == Call("ref_objs_via", iri, predicate, None)
ref_objs(iri) == Call("ref_objs", iri, None, None)
ref_objs_prefix(iri, prefixes) == Call("ref_objs_prefix", iri, prefixes, None)
ref_objs_sans_prefix(iri, prefixes) == Call("ref_objs_sans_prefix", iri, prefixes, None)
lit_objs_via(iri, predicate) == Call("lit_objs_via", iri, predicate, None)
lit_objs(iri) == Call("lit_objs", iri, None, None)
lit_objs_prefix(iri, prefixes) == Call("lit_objs_prefix", iri, prefixes, None)
lit_objs_sans_prefix(iri, prefixes) == Call("lit_objs_sans_prefix", iri, prefixes, None)
ref_subjs_via(iri, predicate) == Call("ref_subjs_via", iri, predicate, None)
ref_subjs(iri) == Call("ref_subjs", iri, None, None)

Plural ==
    \/ \E predicate \in Predicates, object \in Types : subjects(predicate, object)
    \/ \E type_uri \in Types : instances(type_uri)
    \/ \E iri \in Readers, predicate \in Predicates \cup {None} : ref_objs_via(iri, predicate)
    \/ \E iri \in Readers : ref_objs(iri)
    \/ \E iri \in Readers, prefixes \in PrefixLists : ref_objs_prefix(iri, prefixes)
    \/ \E iri \in Readers, prefixes \in PrefixLists : ref_objs_sans_prefix(iri, prefixes)
    \/ \E iri \in {A}, predicate \in Predicates : lit_objs_via(iri, predicate)
    \/ \E iri \in {A} : lit_objs(iri)
    \/ \E iri \in {A}, prefixes \in PrefixLists : lit_objs_prefix(iri, prefixes)
    \/ \E iri \in {A}, prefixes \in PrefixLists : lit_objs_sans_prefix(iri, prefixes)
    \/ \E iri \in Readers, predicate \in Predicates : ref_subjs_via(iri, predicate)
    \/ \E iri \in Readers : ref_subjs(iri)
    \/ list

(***************************************************************************)
(* Calls that run to their end: singular accessors, subgraphs, queries.    *)
(***************************************************************************)
Direct(op, self, a1, outs) ==
    /\ \E out \in outs : ret' = Outcome(op, self, a1, None, out, store)
    /\ UNCHANGED <<store, gen, edits>>

subject(predicate, object) ==
    /\ \E out \in SubjectOutcomes(store, predicate, object) :
           ret' = Outcome("subject", None, predicate, object, out, store)
    /\ UNCHANGED <<store, gen, edits>>

instance(type_uri) == Direct("instance", None, type_uri, InstanceOutcomes(store, type_uri))
ref_obj_via(iri, predicate) ==
    Direct("ref_obj_via", iri, predicate, RefObjViaOutcomes(store, iri, predicate))
lit_obj_via(iri, predicate) ==
    Direct("lit_obj_via", iri, predicate, LitObjViaOutcomes(store, iri, predicate))
ref_subj_via(iri, predicate) ==
    Direct("ref_subj_via", iri, predicate, RefSubjViaOutcomes(store, iri, predicate))
subgraph(iri) == Direct("subgraph", iri, None, {Listed(Subgraph(store, iri))})
cbd(iri) == Direct("cbd", iri, None, {Listed(Cbd(store, iri))})
ask_query(query) == Direct("ask_query", None, query, AskQuery(store, query))
describe_query(query) == Direct("describe_query", None, query, DescribeQuery(store, query))
construct_query(query) == Direct("construct_query", None, query, ConstructQuery(store, query))

Singular ==
    \/ \E predicate \in Predicates, object \in Types : subject(predicate, object)
    \/ \E type_uri \in Types : instance(type_uri)
    \/ \E iri \in Readers, predicate \in Predicates \cup {EmptyIRI} : ref_obj_via(iri, predicate)
    \/ \E iri \in Readers, predicate \in Predicates : lit_obj_via(iri, predicate)
    \/ \E iri \in Readers, predicate \in Predicates : ref_subj_via(iri, predicate)
    \/ \E iri \in Readers \cup BNodes : subgraph(iri)
    \/ \E iri \in Readers \cup BNodes : cbd(iri)
    \/ \E query \in QueryForms : ask_query(query)
    \/ \E query \in QueryForms : describe_query(query)
    \/ \E query \in QueryForms : construct_query(query)

(***************************************************************************)
(* A call that leaves `predicate` out.  ref_objs_via declares              *)
(* `predicate: URIRef | None = None`, so node.ref_objs_via() is            *)
(* ref_objs_via(None).  lit_objs_via declares `predicate: URIRef` with no  *)
(* default: node.lit_objs_via() fails to bind its arguments and raises     *)
(* TypeError at the call, before any generator exists.                     *)
(***************************************************************************)
Missing == "missing"
MissingArgument == "missing 1 required positional argument: 'predicate'"

lit_objs_via_no_predicate(iri) ==
    /\ gen = NoGen
    /\ ret' = [op |-> "lit_objs_via", self |-> iri, a1 |-> Missing, a2 |-> None,
               kind |-> "TypeError", val |-> MissingArgument, pre |-> store,
               touched |-> FALSE, it |-> NoGen]
    /\ UNCHANGED <<store, gen, edits>>

\* the walks over the out-edges of a node
Walk ==
    \/ \E iri \in Readers, predicate \in Predicates \cup {None} : ref_objs_via(iri, predicate)
    \/ \E iri \in Readers, predicate \in Predicates \cup {None} : lit_objs_via(iri, predicate)
    \/ \E iri \in Readers : lit_objs_via_no_predicate(iri)
    \/ \E iri \in Readers : ref_objs(iri)
    \/ \E iri \in Readers, prefixes \in PrefixLists : ref_objs_prefix(iri, prefixes)
    \/ \E iri \in Readers, prefixes \in PrefixLists : ref_objs_sans_prefix(iri, prefixes)
    \/ list

(***************************************************************************)
(* Specifications                                                          *)
(***************************************************************************)
Init ==
    /\ store \in Graphs
    /\ ret = InitRet
    /\ gen = NoGen
    /\ edits = 0

Next ==
    \/ Singular
    \/ Plural
    \/ \E query \in QueryForms : select_query(query)
    \/ \E iri \in Readers : lit_objs_via(iri, None)
    \/ \E iri \in Readers : lit_objs_via_no_predicate(iri)
    \/ Mutation
    \/ add_again

Spec == Init /\ [][Next]_vars

\* navigation and queries over every graph
SpecNav == Init /\ [][Singular]_vars

\* the mutating calls over every graph
SpecEdit == Init /\ [][Mutation]_vars

\* generators, with edits made between the call and the iteration
SpecLazy == Init /\ [][Plural \/ LazyEdit]_vars

\* the exactly-one lookups of the navigator, before and after edits
Lookup ==
    \/ \E predicate \in Predicates, object \in Types : subject(predicate, object)
    \/ \E type_uri \in Types : instance(type_uri)

SpecLookup == Init /\ [][Lookup \/ Mutation]_vars

\* the four typed queries
TypedQuery ==
    \/ \E query \in QueryForms : ask_query(query)
    \/ \E query \in QueryForms : describe_query(query)
    \/ \E query \in QueryForms : construct_query(query)
    \/ \E query \in QueryForms : select_query(query)
    \/ list

SpecQuery == Init /\ [][TypedQuery]_vars

\* the out-edges of a node: objects, literals, pairs, prefix groups
SpecWalk == Init /\ [][Walk]_vars

\* add, and add repeated
AddEdge ==
    \/ \E iri \in Editors, pred \in Predicates, obj \in Objects : add(iri, pred, obj)
    \/ add_again

SpecAdd == Init /\ [][AddEdge]_vars

(***************************************************************************)
(* Properties                                                              *)
(***************************************************************************)
Occurs(x, t) == t[1] = x \/ t[2] = x \/ t[3] = x

\* C1: after change_iri(M) on the handle for N the graph is the graph it
\* was with every occurrence of N, in any of the three positions, replaced
\* by M: no triple holds N any more when M differs from N, and the triples
\* that did not hold N are still there.
C1_Retarget ==
    ret.op = "change_iri" =>
        LET N == ret.self
            M == ret.a1
            Sub(x) == IF x = N THEN M ELSE x
        IN /\ store = { <<Sub(t[1]), Sub(t[2]), Sub(t[3])>> : t \in ret.pre }
           /\ (M # N => \A t \in store : ~Occurs(N, t))
           /\ \A t \in ret.pre : ~Occurs(N, t) => t \in store

\* a rename of a node that was a subject and an object (or a predicate), in
\* a graph that also held a triple without it
C1_Witness ==
    /\ ret.op = "change_iri"
    /\ ret.self # ret.a1
    /\ \E t \in ret.pre : t[1] = ret.self
    /\ \E t \in ret.pre : t[1] # ret.self /\ Occurs(ret.self, t)
    /\ \E t \in ret.pre : ~Occurs(ret.self, t)

\* C2 as stated: replace(P, O) on N followed by ref_objs_via(P) yields
\* exactly the one handle for O, whatever O is.
C2_Original ==
    ret.op = "replace" =>
        ListRefObjsVia(store, ret.self, ret.a1) = { Listed(<<ret.a2>>) }

\* C2 amended: after replace(P, O) on N the only (N, P, ?) triple is
\* (N, P, O); ref_objs_via(P) yields exactly the handle for O when O is an
\* IdentifiedNode, and yields nothing, lit_objs_via(P) yielding O's value,
\* when O is a Literal.  The handle is returned.
C2_ReplaceThenRead ==
    ret.op = "replace" =>
        LET N == ret.self
            Pr == ret.a1
            O == ret.a2
        IN /\ \A t \in store : (t[1] = N /\ t[2] = Pr) => t[3] = O
           /\ <<N, Pr, O>> \in store
           /\ \A t \in ret.pre : (t[1] # N \/ t[2] # Pr) => t \in store
           /\ IsIdentifiedNode(O) =>
                  ListRefObjsVia(store, N, Pr) = { Listed(<<O>>) }
           /\ IsLiteral(O) =>
                  /\ ListRefObjsVia(store, N, Pr) = { Listed(<<>>) }
                  /\ ListLitObjsVia(store, N, Pr) = { Listed(<<Value(O)>>) }
           /\ ret.val = N

\* a replace under a predicate that had two other objects
C2_Witness ==
    /\ ret.op = "replace"
    /\ IsIdentifiedNode(ret.a2)
    /\ Cardinality({ t \in ret.pre : t[1] = ret.self /\ t[2] = ret.a1 /\ t[3] # ret.a2 }) >= 2

\* C9: delete(P, O) on N removes exactly the triples (N, P, O), delete(P)
\* exactly the triples (N, P, x) for every x; every other triple stays, and
\* the handle is returned.
C9_Delete ==
    ret.op = "delete" =>
        LET N == ret.self
            Pr == ret.a1
            O == ret.a2
            gone == IF O = None
                    THEN { t \in ret.pre : t[1] = N /\ t[2] = Pr }
                    ELSE ret.pre \cap { <<N, Pr, O>> }
        IN /\ store = ret.pre \ gone
           /\ \A t \in ret.pre : t \notin gone => t \in store
           /\ ret.val = N

\* a delete with an object, of a triple that was there, under a predicate
\* that has another object, which stays
C9_Witness ==
    /\ ret.op = "delete"
    /\ ret.a2 # None
    /\ <<ret.self, ret.a1, ret.a2>> \in ret.pre
    /\ \E t \in store : t[1] = ret.self /\ t[2] = ret.a1

\* a delete without an object that removed two triples and kept another
C9_WitnessWildcard ==
    /\ ret.op = "delete"
    /\ ret.a2 = None
    /\ Cardinality(ret.pre \ store) = 2
    /\ store # {}

\* C3: ref_obj_via(P) on N returns a handle exactly when ref_objs_via(P) on
\* N yields exactly one handle, and returns that one; with no match it
\* raises the not-found error, with several the ambiguity error, two
\* different errors; the graph is as it was.
C3_RefObjVia ==
    ret.op = "ref_obj_via" =>
        LET N == ret.self
            Pr == ret.a1
            yields == ListRefObjsVia(store, N, Pr)
            nodes == { t[3] : t \in { u \in store : u[1] = N /\ u[2] = Pr
                                                    /\ u[3] \in URIRefs \cup BNodes } }
        IN /\ IsReturn(ret) <=> \A out \in yields : Len(out.val) = 1
           /\ IsReturn(ret) => yields = { Listed(<<ret.val>>) }
           /\ Cardinality(nodes) = 0 => IsError(ret) /\ ret.val = NoItems
           /\ Cardinality(nodes) > 1 => IsError(ret) /\ ret.val = MultipleItems
           /\ NoItems # MultipleItems
           /\ store = ret.pre

\* the one node object is returned although the predicate also leads to a
\* literal
C3_Witness ==
    /\ ret.op = "ref_obj_via"
    /\ IsReturn(ret)
    /\ \E t \in store : t[1] = ret.self /\ t[2] = ret.a1 /\ IsLiteral(t[3])

C3_WitnessAmbiguous ==
    ret.op = "ref_obj_via" /\ IsError(ret) /\ ret.val = MultipleItems

C3_WitnessNotFound ==
    /\ ret.op = "ref_obj_via" /\ IsError(ret) /\ ret.val = NoItems
    /\ \E t \in store : t[1] = ret.self /\ t[2] = ret.a1

NotFound(r) == IsError(r) /\ r.val \in {NoItems, SubjectNotFound}
Ambiguous(r) == IsError(r) /\ r.val \in {MultipleItems, MultipleSubjects}
Malformed(r) == IsError(r) /\ r.val = NotASubject

\* the subjects of the triples (?, p, o) that subject(p, o) or
\* instance(o) is about
LookedUp(r, g) ==
    IF r.op = "subject"
    THEN { t[1] : t \in { u \in g : u[2] = r.a1 /\ u[3] = r.a2 } }
    ELSE { t[1] : t \in { u \in g : u[2] = RdfType /\ u[3] = r.a1 } }

\* an add of a second subject of rdf:type T to a graph in which instance(T)
\* returned the one subject there was
SecondInstanceAdded ==
    /\ ret.op = "add"
    /\ ret.a1 = RdfType
    /\ \E s \in Terms \ {ret.self} : InstanceOutcomes(ret.pre, ret.a2) = { Listed(s) }

\* C4 as stated: subject(p, o) and instance(T) return the subject when
\* exactly one subject matches, raise not-found when none does and
\* ambiguous when several do; a second subject of the type makes
\* instance(T) ambiguous.
C4_Original ==
    /\ ret.op \in {"subject", "instance"} =>
           LET m == LookedUp(ret, store)
           IN /\ Cardinality(m) = 1 => IsReturn(ret) /\ ret.val \in m
              /\ Cardinality(m) = 0 => NotFound(ret)
              /\ Cardinality(m) > 1 => Ambiguous(ret)
    /\ SecondInstanceAdded => InstanceOutcomes(store, ret.a2) = { Failed(MultipleItems) }

\* C4 amended: the three cases hold when every matching subject is an
\* IdentifiedNode; when a matching subject is a Literal the call raises the
\* malformed-subject error, however many subjects match.
C4_Lookup ==
    /\ ret.op \in {"subject", "instance"} =>
           LET m == LookedUp(ret, store)
           IN /\ store = ret.pre
              /\ (\E s \in m : IsLiteral(s)) => Malformed(ret)
              /\ (\A s \in m : IsIdentifiedNode(s)) =>
                     /\ Cardinality(m) = 1 => IsReturn(ret) /\ ret.val \in m
                     /\ Cardinality(m) = 0 => NotFound(ret)
                     /\ Cardinality(m) > 1 => Ambiguous(ret)
    /\ SecondInstanceAdded => InstanceOutcomes(store, ret.a2) = { Failed(MultipleItems) }

\* instance(T) is ambiguous in a graph that an add of a second subject of
\* the type has made
C4_Witness ==
    /\ ret.op = "instance"
    /\ Ambiguous(ret)
    /\ edits > 0
    /\ \E s \in LookedUp(ret, store) :
           InstanceOutcomes(store \ {<<s, RdfType, ret.a1>>}, ret.a1)
               = { Listed(CHOOSE x \in LookedUp(ret, store) \ {s} : TRUE) }

C4_WitnessAdd == SecondInstanceAdded

C4_WitnessMalformed ==
    ret.op = "subject" /\ Malformed(ret) /\ Cardinality(LookedUp(ret, store)) = 1

\* the least set of terms that holds root and, with the subject of a
\* triple, its object
Closure(g, root) ==
    { x \in Terms :
        \A R \in SUBSET Terms :
            (root \in R /\ \A t \in g : t[1] \in R => t[3] \in R) => x \in R }

\* C5: subgraph() on N returns exactly the triples whose subject lies in
\* the reflexive-transitive closure of {N} under "has an outgoing edge, of
\* any predicate, to", literal objects included, and leaves the graph as it
\* was.
C5_Original ==
    ret.op = "subgraph" =>
        /\ IsReturn(ret)
        /\ ret.val = { t \in store : t[1] \in Closure(store, ret.self) }
        /\ store = ret.pre

Cycle3 == { <<A, P, B>>, <<B, RdfType, C>>, <<C, P, A>> }

C10_Cbd ==
    ret.op = "cbd" =>
        /\ IsReturn(ret)
        /\ { t \in ret.val : t[1] = ret.self } = { t \in store : t[1] = ret.self }
        /\ store = ret.pre

\* a description that went through a blank node and holds a literal object
C10_Witness ==
    /\ ret.op = "cbd"
    /\ \E t \in ret.val : t[1] = ret.self /\ IsLiteral(t[3])
    /\ \E t \in ret.val : t[1] # ret.self /\ IsBNode(t[1])

\* the form each typed query method asks for
MethodForm(method) ==
    CASE method = "ask_query" -> "ASK"
      [] method = "describe_query" -> "DESCRIBE"
      [] method = "select_query" -> "SELECT"
      [] method = "construct_query" -> "CONSTRUCT"

\* a typed query has run: ask, describe and construct when they return or
\* raise, select when its generator has been iterated
QueryDone ==
    \/ ret.op \in {"ask_query", "describe_query", "construct_query"}
    \/ ret.op = "list" /\ ret.it.op = "select_query"

QueryMethod == IF ret.op = "list" THEN ret.it.op ELSE ret.op
QueryForm == IF ret.op = "list" THEN ret.it.a1 ELSE ret.a1

\* C7 as stated: a typed query method returns the payload when the result's
\* shape is the method's (Boolean for ask, Tabular for select, Graph for
\* describe and for construct) and raises otherwise.
C7_Original ==
    QueryDone =>
        (IsReturn(ret) <=> Shape(QueryForm) = Shape(MethodForm(QueryMethod)))

\* C7 amended: a typed query method returns the payload exactly when the
\* query's form is the method's own (ASK, DESCRIBE, SELECT, CONSTRUCT) and
\* raises ValueError otherwise, so describe_query refuses a CONSTRUCT
\* result and construct_query a DESCRIBE result; select_query returns a
\* generator and raises when that is iterated.  No value of another form
\* is returned.
C7_TypedQuery ==
    /\ QueryDone =>
           LET result == Query(store, QueryForm)
               want == MethodForm(QueryMethod)
           IN /\ IsReturn(ret) <=> QueryForm = want
              /\ ~IsReturn(ret) => IsError(ret) /\ ret.val = MustBe(want)
              /\ (IsReturn(ret) /\ QueryMethod = "ask_query") => ret.val = result.askAnswer
              /\ (IsReturn(ret) /\ QueryMethod \in {"describe_query", "construct_query"}) =>
                     ret.val = result.graph
              /\ (IsReturn(ret) /\ QueryMethod = "select_query") => ret.val \in result.rows
              /\ store = ret.pre
    /\ ret.op = "select_query" => IsReturn(ret) /\ ret.val = "generator"

\* describe_query refused the graph that a CONSTRUCT query produced
C7_Witness ==
    ret.op = "describe_query" /\ ret.a1 = "CONSTRUCT" /\ IsError(ret) /\ store # {}

C7_WitnessSelect ==
    ret.op = "list" /\ ret.it.op = "select_query" /\ ret.it.a1 = "ASK" /\ IsError(ret)

PluralOps ==
    { "subjects", "instances", "ref_objs_via", "ref_objs", "ref_objs_prefix",
      "ref_objs_sans_prefix", "lit_objs_via", "lit_objs", "lit_objs_prefix",
      "lit_objs_sans_prefix", "ref_subjs_via", "ref_subjs" }

\* C8: a call of a plural accessor returns a generator without reading the
\* graph and without raising; the reads, and the error for a literal
\* subject, come when the generator is iterated, and what is yielded is
\* what the graph holds then.
C8_Lazy ==
    /\ ret.op \in PluralOps =>
           /\ IsReturn(ret) /\ ret.val = "generator"
           /\ ~ret.touched
           /\ store = ret.pre
    /\ (ret.op = "list" /\ ret.it.op \in PluralOps) =>
           /\ [kind |-> ret.kind, val |-> ret.val] \in Body(ret.it, store)
           /\ store = ret.pre
           /\ ret.it.op = "ref_objs_via" =>
                  /\ IsReturn(ret)
                  /\ Range(ret.val) =
                         { t[3] : t \in { u \in store :
                                            /\ u[1] = ret.it.self
                                            /\ (ret.it.a1 = None \/ u[2] = ret.it.a1)
                                            /\ IsIdentifiedNode(u[3]) } }
           /\ ret.it.op = "subjects" =>
                  (IsError(ret) <=>
                       \E u \in store :
                           u[2] = ret.it.a1 /\ u[3] = ret.it.a2 /\ IsLiteral(u[1]))

\* ref_objs_via(P) was called on A, then the graph was edited, then the
\* generator was iterated and yielded C: (A, p, C) is in no graph the
\* navigator starts with, the edit made it
C8_Witness ==
    /\ ret.op = "list"
    /\ ret.it.op = "ref_objs_via" /\ ret.it.self = A /\ ret.it.a1 = P
    /\ ret.it.at < edits
    /\ <<A, P, C>> \in store
    /\ ret.val = <<C>>

\* the literal subject raised when the generator was iterated, after an edit
C8_WitnessMalformed ==
    ret.op = "list" /\ ret.it.op = "subjects" /\ IsError(ret) /\ ret.it.at < edits

\* how many times x stands in the sequence q
Count(q, x) == Cardinality({ i \in 1..Len(q) : q[i] = x })

\* C11: list(subjects(p, o)) yields the subject of every triple (?, p, o),
\* once per triple, and raises the malformed-subject error when one of
\* those subjects is a Literal, whatever other subjects match; the list of
\* ref_subjs_via(p) or ref_subjs() on a node never raises and holds the
\* IdentifiedNode subjects of the triples into the node, once per triple,
\* the Literal subjects left out.
C11_Subjects ==
    /\ (ret.op = "list" /\ ret.it.op = "subjects") =>
           LET m == { u \in store : u[2] = ret.it.a1 /\ u[3] = ret.it.a2 }
           IN /\ (\E u \in m : IsLiteral(u[1])) => Malformed(ret)
              /\ (\A u \in m : IsIdentifiedNode(u[1])) =>
                     /\ IsReturn(ret)
                     /\ Len(ret.val) = Cardinality(m)
                     /\ \A x \in Terms :
                            Count(ret.val, x) = Cardinality({ u \in m : u[1] = x })
    /\ (ret.op = "list" /\ ret.it.op \in {"ref_subjs_via", "ref_subjs"}) =>
           LET m == { u \in store :
                        /\ u[3] = ret.it.self
                        /\ (ret.it.op = "ref_subjs" \/ u[2] = ret.it.a1) }
           IN /\ IsReturn(ret)
              /\ \A i \in 1..Len(ret.val) : IsIdentifiedNode(ret.val[i])
              /\ \A x \in URIRefs \cup BNodes :
                     Count(ret.val, x) = Cardinality({ u \in m : u[1] = x })

\* subjects(p, o) raised although a node is a subject of (?, p, o) next to
\* the literal one
C11_Witness ==
    /\ ret.op = "list" /\ ret.it.op = "subjects"
    /\ Malformed(ret)
    /\ \E u \in store : u[2] = ret.it.a1 /\ u[3] = ret.it.a2 /\ IsIdentifiedNode(u[1])
    /\ \E u \in store : u[2] = ret.it.a1 /\ u[3] = ret.it.a2 /\ IsLiteral(u[1])

\* ref_subjs_via(p) on a node yielded the node subject and left the literal
\* subject of the same predicate and object out
C11_WitnessSkipped ==
    /\ ret.op = "list" /\ ret.it.op = "ref_subjs_via"
    /\ IsReturn(ret) /\ Len(ret.val) = 1
    /\ \E u \in store : u[2] = ret.it.a1 /\ u[3] = ret.it.self /\ IsLiteral(u[1])

\* ref_subjs() yielded a node twice, once for each predicate it points with
C11_WitnessTwice ==
    /\ ret.op = "list" /\ ret.it.op = "ref_subjs"
    /\ \E x \in Terms : Count(ret.val, x) = 2

\* the triples (N, P, ?) that a walk from N by P is about, P = None for any
OutEdges(g, N, Pr) == { u \in g : u[1] = N /\ (Pr = None \/ u[2] = Pr) }

\* C12 as stated: with or without a predicate ref_objs_via yields the
\* IdentifiedNode objects and lit_objs_via the values of the Literal
\* objects of the triples (N, P-or-any, ?), and ref_objs yields every
\* (predicate, object) pair of N whose object is an IdentifiedNode.
C12_Original ==
    /\ (ret.op = "lit_objs_via" /\ ret.a1 = Missing) => IsReturn(ret)
    /\ (ret.op = "list" /\ ret.it.op = "ref_objs") =>
           /\ IsReturn(ret)
           /\ \A u \in OutEdges(store, ret.it.self, None) :
                  IsIdentifiedNode(u[3]) => Count(ret.val, <<u[2], u[3]>>) = 1

\* C12 amended: list(ref_objs_via(P)), P given or left out, holds the
\* IdentifiedNode objects of the triples (N, P-or-any, ?), once per triple;
\* list(lit_objs_via(P)), P given or None, holds the values of the Literal
\* objects of the same triples, once per triple; neither raises, every
\* object of those triples is of exactly one of the two kinds, so the two
\* lists together are as long as the set of triples and share no object.
\* lit_objs_via called without a predicate raises TypeError.  list(ref_objs())
\* holds the (predicate, object) pairs of N whose object is an
\* IdentifiedNode and whose predicate is a URIRef, each once.
C12_Outgoing ==
    /\ (ret.op = "list" /\ ret.it.op \in {"ref_objs_via", "lit_objs_via"}) =>
           LET m == OutEdges(store, ret.it.self, ret.it.a1)
               nodes == { u \in m : IsIdentifiedNode(u[3]) }
               lits == { u \in m : IsLiteral(u[3]) }
           IN /\ IsReturn(ret)
              /\ nodes \cup lits = m /\ nodes \cap lits = {}
              /\ ret.it.op = "ref_objs_via" =>
                     /\ Len(ret.val) = Cardinality(nodes)
                     /\ \A x \in Terms :
                            Count(ret.val, x) = Cardinality({ u \in nodes : u[3] = x })
                     /\ \A lv \in ListLitObjsVia(store, ret.it.self, ret.it.a1) :
                            /\ Len(ret.val) + Len(lv.val) = Cardinality(m)
                            /\ \A x \in Terms :
                                   ~(Count(ret.val, x) > 0 /\ Count(lv.val, Value(x)) > 0)
              /\ ret.it.op = "lit_objs_via" =>
                     /\ Len(ret.val) = Cardinality(lits)
                     /\ \A x \in Terms :
                            Count(ret.val, Value(x)) = Cardinality({ u \in lits : u[3] = x })
                     /\ \A i \in 1..Len(ret.val) : \E x \in Literals : ret.val[i] = Value(x)
    /\ (ret.op = "lit_objs_via" /\ ret.a1 = Missing) => ret.kind = "TypeError"
    /\ (ret.op = "list" /\ ret.it.op = "ref_objs") =>
           LET m == OutEdges(store, ret.it.self, None)
               edges == { u \in m : IsIdentifiedNode(u[3]) /\ IsURIRef(u[2]) }
           IN /\ IsReturn(ret)
              /\ Len(ret.val) = Cardinality(edges)
              /\ \A u \in edges : Count(ret.val, <<u[2], u[3]>>) = 1

\* ref_objs_via() without a predicate on a node that has node objects and a
\* literal object: the literal is left out, a node reached by two
\* predicates is yielded twice
C12_Witness ==
    /\ ret.op = "list" /\ ret.it.op = "ref_objs_via" /\ ret.it.a1 = None
    /\ \E u \in store : u[1] = ret.it.self /\ IsLiteral(u[3])
    /\ \E x \in Terms : Count(ret.val, x) = 2

\* lit_objs_via(P) yielded the value of the literal next to a node object
C12_WitnessLiteral ==
    /\ ret.op = "list" /\ ret.it.op = "lit_objs_via" /\ ret.it.a1 = P
    /\ ret.val = <<Value(L)>>
    /\ \E u \in store : u[1] = ret.it.self /\ u[2] = P /\ IsIdentifiedNode(u[3])

\* ref_objs() left out the pair whose predicate is a blank node
C12_WitnessBlankPredicate ==
    /\ ret.op = "list" /\ ret.it.op = "ref_objs"
    /\ Len(ret.val) = 1
    /\ \E u \in store : u[1] = ret.it.self /\ IsBNode(u[2]) /\ IsIdentifiedNode(u[3])

C12_WitnessMissing ==
    ret.op = "lit_objs_via" /\ ret.a1 = Missing /\ ret.kind = "TypeError" /\ store # {}

\* the (predicate, object) pairs that ref_objs() yields on N
RefPairs(g, N) ==
    { <<u[2], u[3]>> : u \in { v \in g : v[1] = N /\ IsIdentifiedNode(v[3]) /\ IsURIRef(v[2]) } }

\* the string begins with the prefix: it is the prefix followed by a rest
Begins(str, prefix) ==
    /\ Len(prefix) <= Len(str)
    /\ \A i \in 1..Len(prefix) : str[i] = prefix[i]

\* some prefix of the list begins the predicate's string
Grouped(e, prefixes) == \E i \in 1..Len(prefixes) : Begins(Str(e[1]), prefixes[i])

\* the pair with the predicate's string cut after the first prefix of the
\* list that begins it
Stripped(e, prefixes) ==
    LET str == Str(e[1])
        i == CHOOSE k \in 1..Len(prefixes) :
                 /\ Begins(str, prefixes[k])
                 /\ \A j \in 1..(k - 1) : ~Begins(str, prefixes[j])
    IN << [k \in 1..(Len(str) - Len(prefixes[i])) |-> str[Len(prefixes[i]) + k]], e[2] >>

\* C13: list(ref_objs_prefix(*prefixes)) holds a pair of ref_objs() exactly
\* when the string of its predicate starts with one of the prefixes, and
\* holds it once however many prefixes match; list(ref_objs_sans_prefix(
\* *prefixes)) holds for each of those pairs the pair of the predicate's
\* string without the first prefix, in the order given, that matches, and
\* the object: with prefix "ex:" the edge (N, ex:p, M) gives ("p", M).
C13_Prefix ==
    /\ (ret.op = "list" /\ ret.it.op = "ref_objs_prefix") =>
           LET all == RefPairs(store, ret.it.self)
               kept == { e \in all : Grouped(e, ret.it.a1) }
           IN /\ IsReturn(ret)
              /\ Len(ret.val) = Cardinality(kept)
              /\ \A e \in all :
                     Count(ret.val, e) = IF Grouped(e, ret.it.a1) THEN 1 ELSE 0
    /\ (ret.op = "list" /\ ret.it.op = "ref_objs_sans_prefix") =>
           LET all == RefPairs(store, ret.it.self)
               kept == { e \in all : Grouped(e, ret.it.a1) }
           IN /\ IsReturn(ret)
              /\ Len(ret.val) = Cardinality(kept)
              /\ \A i \in 1..Len(ret.val) :
                     \E e \in kept : ret.val[i] = Stripped(e, ret.it.a1)
              /\ \A e \in kept :
                     Count(ret.val, Stripped(e, ret.it.a1))
                         = Cardinality({ f \in kept :
                                           Stripped(f, ret.it.a1) = Stripped(e, ret.it.a1) })
              /\ (ret.it.a1 = <<ExPrefix>> /\ <<ret.it.self, P, B>> \in store) =>
                     Count(ret.val, << <<"p">>, B >>) = 1

\* the prefixes "e" and "ex:" both match ex:p: the pair came once, cut
\* after "e", and the rdf:type pair of the node was left out
C13_Witness ==
    /\ ret.op = "list" /\ ret.it.op = "ref_objs_sans_prefix"
    /\ ret.it.a1 = <<EPrefix, ExPrefix>>
    /\ ret.val = << << <<"x", ":", "p">>, B >> >>
    /\ \E u \in store : u[1] = ret.it.self /\ u[2] = RdfType

\* ref_objs_prefix kept one pair of two, both prefixes of the list in use
C13_WitnessKept ==
    /\ ret.op = "list" /\ ret.it.op = "ref_objs_prefix"
    /\ ret.it.a1 = <<RdfPrefix, ExPrefix>>
    /\ Len(ret.val) = 2
    /\ Cardinality(RefPairs(store, ret.it.self)) = 3

\* the triples of g under predicate p
Under(g, p) == { t \in g : t[2] = p }

\* C14: after add(P, O) on the handle for N the triple (N, P, O) is in the
\* graph, every triple that was there is still there and no other triple
\* has come; the handle is returned.  An add that finds its triple in the
\* graph, as the same add made again at once does, leaves the graph as it
\* found it, with as many triples under P as before.
C14_Add ==
    ret.op = "add" =>
        LET N == ret.self
            Pr == ret.a1
            O == ret.a2
        IN /\ <<N, Pr, O>> \in store
           /\ \A t \in ret.pre : t \in store
           /\ \A t \in store : t # <<N, Pr, O>> => t \in ret.pre
           /\ ret.val = N
           /\ edits > MaxEdits => <<N, Pr, O>> \in ret.pre
           /\ <<N, Pr, O>> \in ret.pre =>
                  /\ store = ret.pre
                  /\ Cardinality(Under(store, Pr)) = Cardinality(Under(ret.pre, Pr))

\* the add was made again: the first add had put a new triple under a
\* predicate that already had one, next to triples of another predicate
C14_Witness ==
    /\ ret.op = "add"
    /\ edits = MaxEdits + 1
    /\ Cardinality(Under(store, ret.a1)) >= 2
    /\ \E t \in store : t[2] # ret.a1

\* a first add of a triple that was not there
C14_WitnessFirst ==
    /\ ret.op = "add"
    /\ <<ret.self, ret.a1, ret.a2>> \notin ret.pre
    /\ ret.pre # {}
    /\ Cardinality(store) = Cardinality(ret.pre) + 1

====
